---- MODULE Spec2Model ----
(***************************************************************************)
(* Model of transformer/model.py: the 2D positional encoder, the teacher-  *)
(* forcing corruptor, the two autoregressive decoding loops and the        *)
(* per-epoch prediction accumulators of the Transformer module.            *)
(*                                                                         *)
(* Three specifications share the module:                                  *)
(*   Spec    the Transformer's handlers (training_step, validation_step,   *)
(*           test_step, get_pred_seq_and_pred_prob_seq, the epoch ends);   *)
(*   SpecTF  apply_teacher_forcing, one loop iteration per step;           *)
(*   SpecPE  PositionalEncoding2D.forward.                                 *)
(***************************************************************************)
EXTENDS Integers, Sequences, FiniteSets, TLC

VARIABLES
    max_seq_len,   \* self.max_seq_len
    Y,             \* self.Y
    YHat,          \* self.YHat
    call,          \* the handler being executed, "none" between calls
    pc,            \* position inside the handler: "idle", "loop", "done"
    batch,         \* the argument of the handler being executed
    y_in,          \* local y_in of the decoding loop (a row of token indices)
    yhat,          \* local yhat
    yhat_prob,     \* local yhat_prob
    it,            \* iterations of `for _ in range(self.max_seq_len)` begun
    dec,           \* the decoder's answers so far: (memory, tgt) -> top-1 output
    fed,           \* history: the tgt of every decoder invocation of this call
    sel,           \* history: the token index selected at every step of this call
    last,          \* the call that returned last, with what it returned and
                   \* printed; no call once the next one has begun
    err,           \* the exception that ended the run, "none" if none
    tf_prob,       \* self.teacher_forcing_prob, in percent
    tf_y,          \* apply_teacher_forcing: the caller's batch y
    y_errored,     \* apply_teacher_forcing: local y_errored
    tf_i,          \* apply_teacher_forcing: row index i (from 1)
    tf_j,          \* apply_teacher_forcing: column index j (from 1)
    tf_pc,         \* apply_teacher_forcing: "idle", "loop", "done"
    tf_written,    \* history: the positions apply_teacher_forcing assigned
    tf_orig,       \* history: the batch as the caller passed it
    pe,            \* PositionalEncoding2D.pe, the registered table
    pe_res         \* outcome of the last PositionalEncoding2D.forward

mainVars == <<max_seq_len, Y, YHat, call, pc, batch, y_in, yhat, yhat_prob, it,
              dec, fed, sel, last, err>>
tfVars == <<tf_prob, tf_y, y_errored, tf_i, tf_j, tf_pc, tf_written, tf_orig>>
peVars == <<pe, pe_res>>
vars == <<mainVars, tfVars, peVars>>

(***************************************************************************)
(* Bounds of the model.                                                    *)
(***************************************************************************)
MaxSeqLen == 2      \* max_seq_len is drawn from 0..MaxSeqLen
MaxAcc == 2         \* at most MaxAcc samples are recorded per epoch
MaxTFLen == 2       \* seq_len of a training batch is drawn from 0..MaxTFLen
MaxDim == 2         \* table maxima from 1..MaxDim, grid sizes from 1..MaxDim+1

(***************************************************************************)
(* Vocabulary.                                                             *)
(***************************************************************************)
SOS_TOKEN == "<SOS>"
EOS_TOKEN == "<EOS>"
w2i == [w \in {"<PAD>", SOS_TOKEN, EOS_TOKEN, "a"} |->
          CASE w = "<PAD>" -> 0
            [] w = SOS_TOKEN -> 1
            [] w = EOS_TOKEN -> 2
            [] OTHER -> 3]
Tokens == {w2i[w] : w \in DOMAIN w2i}
i2w == [t \in Tokens |-> CHOOSE w \in DOMAIN w2i : w2i[w] = t]
ytest_i2w == i2w
padding_idx == w2i["<PAD>"]

(***************************************************************************)
(* Inputs of the evaluation handlers.  An image stands for the decoder     *)
(* memory x the encoder and the positional encoder make of it; its ground  *)
(* truth is the row y[0] of the batch, START token included.               *)
(***************************************************************************)
Images == {"img1", "img2"}
GroundTruth == [x \in Images |->
                  IF x = "img1" THEN <<w2i[SOS_TOKEN], w2i["a"], w2i[EOS_TOKEN]>>
                                ELSE <<w2i[SOS_TOKEN], w2i[EOS_TOKEN]>>]
BatchSizes == {1, 2}
Probs == {90}       \* the top-1 scores the decoder may report
NoBatch == [x |-> "none", y |-> <<>>, size |-> 0]
NoCall == [op |-> "none", ret |-> <<>>, shown |-> <<>>]

\* y = [self.ytest_i2w[i.item()] for i in y[0][1:]]
TruthWords(y) == [k \in 1..(Len(y) - 1) |-> ytest_i2w[y[k + 1]]]


(***************************************************************************)
(* The decoder and the metrics function are collaborators.  The decoder is *)
(* a fixed network: asked again with the same memory and the same tgt it   *)
(* answers the same; its first answer to a question is any token of the    *)
(* vocabulary (output_size = len(w2i)) with any score.  Only the top-1     *)
(* entry of the last position is read by the loops.                        *)
(***************************************************************************)
DecoderOutputs(d, x, tgt) ==
    IF <<x, tgt>> \in DOMAIN d THEN {d[<<x, tgt>>]}
                               ELSE [tok : Tokens, prob : Probs]

Remember(d, x, tgt, out) ==
    IF <<x, tgt>> \in DOMAIN d THEN d ELSE d @@ (<<x, tgt>> :> out)

\* compute_metrics(y_true=..., y_pred=...): a mapping determined by its arguments
compute_metrics(y_true, y_pred) == [y_true |-> y_true, y_pred |-> y_pred]

(***************************************************************************)
(* Pieces of the decoding loops.                                           *)
(***************************************************************************)
\* torch.tensor([self.w2i[SOS_TOKEN]]).unsqueeze(0): the row [START]
StartSeq == <<w2i[SOS_TOKEN]>>

\* for _ in range(self.max_seq_len): is there an iteration after i of them
range_has_next_off(i, n) == i <= n
range_has_next(i, n) == i < n

\* if y_out_hat_word == EOS_TOKEN: break
IsEnd_never(word) == FALSE
IsEnd(word) == word = EOS_TOKEN

\* torch.cat([y_in, <the token>], dim=1)
Cat_front(yin, token) == <<token>> \o yin
Cat(yin, token) == Append(yin, token)

\* the state after i iterations: another iteration, or the loop is over
LoopPc_unbounded(i) == "loop"
LoopPc(i) == IF range_has_next(i, max_seq_len) THEN "loop" ELSE "done"

EvalOps == {"validation_step", "test_step"}
PredOp == "get_pred_seq_and_pred_prob_seq"
EndOps == {"on_validation_epoch_end", "on_test_epoch_end"}

Running == err = "none"

(***************************************************************************)
(* validation_step / test_step / get_pred_seq_and_pred_prob_seq up to the  *)
(* loop: the batch-size assertion, the encoder side, the initial y_in.     *)
(***************************************************************************)
Begin(op, x, y, size) ==
    /\ Running
    /\ call = "none"
    /\ call' = op
    /\ IF size # 1
       THEN /\ err' = "AssertionError"
            /\ UNCHANGED <<batch, y_in, yhat, yhat_prob, it, fed, sel, pc>>
       ELSE /\ err' = err
            /\ batch' = [x |-> x, y |-> y, size |-> size]
            /\ y_in' = StartSeq
            /\ yhat' = <<>>
            /\ yhat_prob' = <<>>
            /\ it' = 0
            /\ fed' = <<>>
            /\ sel' = <<>>
            /\ pc' = LoopPc(0)
    /\ last' = NoCall
    /\ UNCHANGED <<max_seq_len, Y, YHat, dec, tfVars, peVars>>

validation_step ==
    /\ Len(Y) < MaxAcc
    /\ \E x \in Images, size \in BatchSizes :
          Begin("validation_step", x, GroundTruth[x], size)

test_step ==
    /\ Len(Y) < MaxAcc
    /\ \E x \in Images, size \in BatchSizes :
          Begin("test_step", x, GroundTruth[x], size)

get_pred_seq_and_pred_prob_seq ==
    \E x \in Images, size \in BatchSizes : Begin(PredOp, x, <<>>, size)

\* one iteration of the loop of validation_step
ValIter ==
    /\ Running
    /\ call \in EvalOps
    /\ pc = "loop"
    /\ \E out \in DecoderOutputs(dec, batch.x, y_in) :
          LET y_out_hat_token == out.tok
              y_out_hat_word == i2w[y_out_hat_token]
          IN  /\ dec' = Remember(dec, batch.x, y_in, out)
              /\ fed' = Append(fed, y_in)
              /\ sel' = Append(sel, y_out_hat_token)
              /\ yhat' = Append(yhat, y_out_hat_word)
              /\ it' = it + 1
              /\ IF IsEnd(y_out_hat_word)
                 THEN /\ pc' = "done"
                      /\ y_in' = y_in
                 ELSE /\ y_in' = Cat(y_in, y_out_hat_token)
                      /\ pc' = LoopPc(it + 1)
    /\ UNCHANGED <<max_seq_len, Y, YHat, call, batch, yhat_prob, last, err,
                   tfVars, peVars>>

\* the decoded ground truth and the two appends that end validation_step
ValRecord_unpaired ==
    /\ Running
    /\ call \in EvalOps
    /\ pc = "done"
    /\ Y' = Append(Y, TruthWords(batch.y))
    /\ YHat' = IF yhat = <<>> THEN YHat ELSE Append(YHat, yhat)
    /\ last' = [op |-> call, ret |-> <<>>, shown |-> <<>>]
    /\ call' = "none"
    /\ pc' = "idle"
    /\ batch' = NoBatch
    /\ y_in' = <<>> /\ yhat' = <<>> /\ yhat_prob' = <<>> /\ it' = 0
    /\ fed' = <<>> /\ sel' = <<>>
    /\ UNCHANGED <<max_seq_len, dec, err, tfVars, peVars>>

ValRecord ==
    /\ Running
    /\ call \in EvalOps
    /\ pc = "done"
    /\ Y' = Append(Y, TruthWords(batch.y))
    /\ YHat' = Append(YHat, yhat)
    /\ last' = [op |-> call, ret |-> <<>>, shown |-> <<>>]
    /\ call' = "none"
    /\ pc' = "idle"
    /\ batch' = NoBatch
    /\ y_in' = <<>> /\ yhat' = <<>> /\ yhat_prob' = <<>> /\ it' = 0
    /\ fed' = <<>> /\ sel' = <<>>
    /\ UNCHANGED <<max_seq_len, dec, err, tfVars, peVars>>

\* one iteration of the loop of get_pred_seq_and_pred_prob_seq
PredIter_late_prob ==
    /\ Running
    /\ call = PredOp
    /\ pc = "loop"
    /\ \E out \in DecoderOutputs(dec, batch.x, y_in) :
          LET y_out_hat_prob == out.prob
              y_out_hat_token == out.tok
              y_out_hat_word == i2w[y_out_hat_token]
          IN  /\ dec' = Remember(dec, batch.x, y_in, out)
              /\ fed' = Append(fed, y_in)
              /\ sel' = Append(sel, y_out_hat_token)
              /\ yhat' = Append(yhat, y_out_hat_word)
              /\ it' = it + 1
              /\ IF IsEnd(y_out_hat_word)
                 THEN /\ pc' = "done"
                      /\ y_in' = y_in
                      /\ yhat_prob' = yhat_prob
                 ELSE /\ yhat_prob' = Append(yhat_prob, y_out_hat_prob)
                      /\ y_in' = Cat(y_in, y_out_hat_token)
                      /\ pc' = LoopPc(it + 1)
    /\ UNCHANGED <<max_seq_len, Y, YHat, call, batch, last, err, tfVars, peVars>>

PredIter ==
    /\ Running
    /\ call = PredOp
    /\ pc = "loop"
    /\ \E out \in DecoderOutputs(dec, batch.x, y_in) :
          LET y_out_hat_prob == out.prob
              y_out_hat_token == out.tok
              y_out_hat_word == i2w[y_out_hat_token]
          IN  /\ dec' = Remember(dec, batch.x, y_in, out)
              /\ fed' = Append(fed, y_in)
              /\ sel' = Append(sel, y_out_hat_token)
              /\ yhat' = Append(yhat, y_out_hat_word)
              /\ yhat_prob' = Append(yhat_prob, y_out_hat_prob)
              /\ it' = it + 1
              /\ IF IsEnd(y_out_hat_word)
                 THEN /\ pc' = "done"
                      /\ y_in' = y_in
                 ELSE /\ y_in' = Cat(y_in, y_out_hat_token)
                      /\ pc' = LoopPc(it + 1)
    /\ UNCHANGED <<max_seq_len, Y, YHat, call, batch, last, err, tfVars, peVars>>

\* return yhat, yhat_prob
PredReturn ==
    /\ Running
    /\ call = PredOp
    /\ pc = "done"
    /\ last' = [op |-> PredOp, ret |-> <<yhat, yhat_prob>>, shown |-> <<>>]
    /\ call' = "none"
    /\ pc' = "idle"
    /\ batch' = NoBatch
    /\ y_in' = <<>> /\ yhat' = <<>> /\ yhat_prob' = <<>> /\ it' = 0
    /\ fed' = <<>> /\ sel' = <<>>
    /\ UNCHANGED <<max_seq_len, Y, YHat, dec, err, tfVars, peVars>>

\* training_step: corrupts y_in (see SpecTF), runs forward, returns the loss
training_step ==
    /\ Running
    /\ call = "none"
    /\ last' = [op |-> "training_step", ret |-> <<"loss">>, shown |-> <<>>]
    /\ UNCHANGED <<max_seq_len, Y, YHat, call, pc, batch, y_in, yhat, yhat_prob,
                   it, dec, fed, sel, err, tfVars, peVars>>

(***************************************************************************)
(* on_validation_epoch_end(name, print_random_samples) and its two callers *)
(***************************************************************************)
EndOp(name) == IF name = "test" THEN "on_test_epoch_end"
                                ELSE "on_validation_epoch_end"

on_validation_epoch_end_keeps_yhat(name, print_random_samples) ==
    /\ Running
    /\ call = "none"
    /\ LET metrics == compute_metrics(Y, YHat)
       IN  IF print_random_samples /\ Len(Y) - 1 < 0
           THEN /\ err' = "ValueError"
                /\ call' = EndOp(name)
                /\ UNCHANGED <<Y, YHat, last>>
           ELSE /\ \E index \in (IF print_random_samples THEN 0..(Len(Y) - 1)
                                                         ELSE {0}) :
                      last' = [op |-> EndOp(name),
                               ret |-> <<name, metrics>>,
                               shown |-> IF print_random_samples
                                         THEN <<Y[index + 1], YHat[index + 1]>>
                                         ELSE <<>>]
                /\ Y' = <<>>
                /\ YHat' = YHat
                /\ UNCHANGED <<err, call>>
    /\ UNCHANGED <<max_seq_len, pc, batch, y_in, yhat, yhat_prob, it, dec, fed,
                   sel, tfVars, peVars>>

on_validation_epoch_end(name, print_random_samples) ==
    /\ Running
    /\ call = "none"
    /\ LET metrics == compute_metrics(Y, YHat)
       IN  \* random.randint(0, len(self.Y) - 1) raises on an empty range
           IF print_random_samples /\ Len(Y) - 1 < 0
           THEN /\ err' = "ValueError"
                /\ call' = EndOp(name)
                /\ UNCHANGED <<Y, YHat, last>>
           ELSE /\ \E index \in (IF print_random_samples THEN 0..(Len(Y) - 1)
                                                         ELSE {0}) :
                      last' = [op |-> EndOp(name),
                               ret |-> <<name, metrics>>,
                               shown |-> IF print_random_samples
                                         THEN <<Y[index + 1], YHat[index + 1]>>
                                         ELSE <<>>]
                /\ Y' = <<>>
                /\ YHat' = <<>>
                /\ UNCHANGED <<err, call>>
    /\ UNCHANGED <<max_seq_len, pc, batch, y_in, yhat, yhat_prob, it, dec, fed,
                   sel, tfVars, peVars>>

val_epoch_end == on_validation_epoch_end("val", FALSE)

on_test_epoch_end == on_validation_epoch_end("test", TRUE)

(***************************************************************************)
(* Values the variables of the other two specifications keep under Spec.   *)
(***************************************************************************)
TFIdle ==
    /\ tf_prob = 0 /\ tf_y = <<>> /\ y_errored = <<>> /\ tf_i = 1 /\ tf_j = 1
    /\ tf_pc = "idle" /\ tf_written = {} /\ tf_orig = <<>>

PEIdle ==
    /\ pe = [max_height |-> 0, max_width |-> 0, table |-> <<>>]
    /\ pe_res = [status |-> "none"]

MainIdle ==
    /\ Y = <<>> /\ YHat = <<>>
    /\ call = "none" /\ pc = "idle" /\ batch = NoBatch
    /\ y_in = <<>> /\ yhat = <<>> /\ yhat_prob = <<>> /\ it = 0
    /\ dec = <<>> /\ fed = <<>> /\ sel = <<>>
    /\ last = NoCall /\ err = "none"

\* Transformer.__init__: max_seq_len is a parameter, the accumulators start empty
Init ==
    /\ max_seq_len \in 0..MaxSeqLen
    /\ MainIdle
    /\ TFIdle
    /\ PEIdle

Next ==
    \/ training_step
    \/ validation_step
    \/ test_step
    \/ get_pred_seq_and_pred_prob_seq
    \/ ValIter
    \/ ValRecord
    \/ PredIter
    \/ PredReturn
    \/ val_epoch_end
    \/ on_test_epoch_end

Spec == Init /\ [][Next]_vars


(***************************************************************************)
(* Properties of the decoding loops (under Spec).                          *)
(***************************************************************************)
Decoding == Running /\ call \in EvalOps \cup {PredOp}

HasEOS(words) == \E k \in 1..Len(words) : words[k] = EOS_TOKEN

WordsOf(tokens) == [k \in 1..Len(tokens) |-> i2w[tokens[k]]]

\* The state machine of the design, run on the decoder's recorded answers:
\* the words produced from tgt with n steps left.
RECURSIVE Greedy(_, _, _, _)
Greedy(d, x, tgt, n) ==
    IF n <= 0 \/ <<x, tgt>> \notin DOMAIN d
    THEN <<>>
    ELSE LET t == d[<<x, tgt>>].tok
         IN  IF i2w[t] = "<EOS>"
             THEN <<i2w[t]>>
             ELSE <<i2w[t]>> \o Greedy(d, x, tgt \o <<t>>, n - 1)

\* C1: for every max_seq_len >= 0 and every decoder behaviour, both decoding
\* loops make at most max_seq_len decoder invocations (an iteration is only
\* pending while fewer than max_seq_len were made, and a pending iteration can
\* always be taken), and every output word sequence, while it is built, when
\* it is recorded and when it is returned, has length <= max_seq_len.
C1_LoopBounded ==
    /\ max_seq_len >= 0
    /\ Len(fed) <= max_seq_len
    /\ Len(yhat) <= max_seq_len
    /\ it = Len(fed)
    /\ (Decoding /\ pc = "loop") =>
          /\ Len(fed) < max_seq_len
          /\ ENABLED (ValIter \/ PredIter)
    /\ \A k \in 1..Len(YHat) : Len(YHat[k]) <= max_seq_len
    /\ last.op = PredOp => Len(last.ret[1]) <= max_seq_len

\* the loop ran to the cap without an EOS, with the largest cap of the model
C1_Witness ==
    /\ Decoding /\ pc = "done"
    /\ max_seq_len = MaxSeqLen
    /\ Len(fed) = max_seq_len
    /\ ~HasEOS(yhat)

\* what C2 says of a finished output: it is the selected words in order, one
\* per decoder step; it ends at the first EOS, or has max_seq_len words and
\* no EOS
StoppedAtFirstEOS(words, steps) ==
    /\ Len(words) = steps
    /\ IF HasEOS(words)
       THEN /\ words[Len(words)] = EOS_TOKEN
            /\ \A k \in 1..(Len(words) - 1) : words[k] # EOS_TOKEN
       ELSE Len(words) = max_seq_len

\* C2: the loop stops exactly at the first step whose selected word is the
\* END marker: while the loop goes on no selected word was EOS, and when it is
\* over the output is the selected words up to and including the first EOS
\* (EOS last and nowhere earlier, decoder steps = output length), or, with no
\* EOS selected, exactly the max_seq_len selected words with no EOS appended.
C2_StopsAtFirstEOS ==
    /\ Decoding => yhat = WordsOf(sel)
    /\ (Decoding /\ pc = "loop") => ~HasEOS(yhat)
    /\ (Decoding /\ pc = "done") => StoppedAtFirstEOS(yhat, Len(fed))
    /\ \A k \in 1..Len(YHat) : StoppedAtFirstEOS(YHat[k], Len(YHat[k]))

\* EOS selected at the first of two allowed steps: the loop stopped after one
\* decoder step, before the cap, with EOS as the only output word
C2_Witness ==
    /\ call \in EvalOps /\ pc = "done"
    /\ yhat = <<EOS_TOKEN>>
    /\ Len(fed) = 1
    /\ max_seq_len = 2

\* C3 as claimed: in every reachable state of the decoding loop the length of
\* the Decoding State y_in is <= max_seq_len.
C3_Original == Decoding => Len(y_in) <= max_seq_len

\* C3 as amended: in every reachable state of the decoding loop y_in has
\* length <= max_seq_len + 1, and every sequence fed to the decoder has
\* length <= max_seq_len; y_in is longer than max_seq_len only when the loop
\* is over without an EOS (after the last iteration's append, or at once when
\* max_seq_len = 0), and then it is never fed to the decoder.
C3_Amended ==
    Decoding =>
       /\ Len(y_in) <= max_seq_len + 1
       /\ \A k \in 1..Len(fed) : Len(fed[k]) <= max_seq_len
       /\ pc = "loop" => Len(y_in) <= max_seq_len
       /\ Len(y_in) = max_seq_len + 1 =>
             /\ pc = "done"
             /\ ~HasEOS(yhat)
             /\ Len(yhat) = max_seq_len

\* after the last iteration's append with no EOS: y_in is one longer than the
\* cap
C3_Witness ==
    /\ Decoding /\ pc = "done"
    /\ max_seq_len >= 1
    /\ Len(fed) = max_seq_len
    /\ Len(y_in) = max_seq_len + 1

\* C9: the sequence fed to the decoder at its k-th invocation is [START]
\* followed by the token indices selected at steps 1..k-1 in order (length
\* k); the output word of step j is i2w of the index fed back after step j;
\* y_in is [START] followed by the selected indices, without the index of an
\* EOS selection, which is never fed back.
C9_FeedBack ==
    Decoding =>
       LET fb == IF sel # <<>> /\ i2w[sel[Len(sel)]] = EOS_TOKEN
                 THEN SubSeq(sel, 1, Len(sel) - 1)
                 ELSE sel
       IN  /\ Len(fed) = Len(sel)
           /\ Len(yhat) = Len(sel)
           /\ \A k \in 1..Len(fed) :
                 /\ Len(fed[k]) = k
                 /\ fed[k] = <<w2i[SOS_TOKEN]>> \o SubSeq(sel, 1, k - 1)
           /\ y_in = <<w2i[SOS_TOKEN]>> \o fb
           /\ \A j \in 1..Len(fb) :
                 /\ i2w[fb[j]] # EOS_TOKEN
                 /\ yhat[j] = i2w[y_in[j + 1]]

\* two invocations, the second fed [START, a], then EOS: not fed back
C9_Witness ==
    /\ Decoding /\ pc = "done"
    /\ fed = << <<w2i[SOS_TOKEN]>>, <<w2i[SOS_TOKEN], w2i["a"]>> >>
    /\ sel = <<w2i["a"], w2i[EOS_TOKEN]>>
    /\ y_in = <<w2i[SOS_TOKEN], w2i["a"]>>

\* C10: get_pred_seq_and_pred_prob_seq runs the state machine of the
\* validation_step loop: for the same decoder, memory and max_seq_len both
\* end with the word sequence the state machine Greedy produces, so the
\* sequence get_pred returns is the one validation_step records for that
\* image; the score list has the length of the word list; the accumulators
\* keep their contents throughout a get_pred call.
C10_SameMachineInv ==
    /\ (Decoding /\ pc = "done") =>
          yhat = Greedy(dec, batch.x, <<w2i[SOS_TOKEN]>>, max_seq_len)
    /\ (call = PredOp /\ Running /\ pc = "done") =>
          /\ Len(yhat_prob) = Len(yhat)
          /\ \A k \in 1..Len(Y) :
                Y[k] = TruthWords(GroundTruth[batch.x]) => YHat[k] = yhat
    /\ \A k \in 1..Len(Y) : \A x \in Images :
          (k <= Len(YHat) /\ Y[k] = TruthWords(GroundTruth[x])) =>
             YHat[k] = Greedy(dec, x, <<w2i[SOS_TOKEN]>>, max_seq_len)
    /\ last.op = PredOp =>
          /\ Len(last.ret[2]) = Len(last.ret[1])
          /\ \E x \in Images :
                last.ret[1] = Greedy(dec, x, <<w2i[SOS_TOKEN]>>, max_seq_len)

\* C10, with the accumulators: C10_SameMachineInv holds in every reachable
\* state, and no step of a get_pred_seq_and_pred_prob_seq call changes Y or
\* YHat.
C10_SameMachine ==
    /\ []C10_SameMachineInv
    /\ [][(call = PredOp \/ call' = PredOp) => (Y' = Y /\ YHat' = YHat)]_vars

\* get_pred is about to return two words ending in EOS, with two scores, for
\* an image whose prediction validation_step has already recorded
C10_Witness ==
    /\ call = PredOp /\ pc = "done"
    /\ yhat = <<"a", EOS_TOKEN>>
    /\ Len(yhat_prob) = 2
    /\ \E k \in 1..Len(Y) :
          Y[k] = TruthWords(GroundTruth[batch.x]) /\ YHat[k] = yhat


(***************************************************************************)
(* Properties of the epoch accumulators (under Spec).                      *)
(***************************************************************************)
\* a step that is a call of end_epoch (either form), returning or raising
EndEpochStep ==
    /\ call = "none"
    /\ \/ call' = "none" /\ last'.op \in EndOps
       \/ call' \in EndOps

\* C4: end_epoch called while both accumulators are empty is not an error:
\* the validation form and the test form both complete normally, hand the two
\* empty collections to the metrics collaborator and leave both accumulators
\* empty.
C4_EmptyEpochEnd ==
    [][(EndEpochStep /\ Y = <<>> /\ YHat = <<>>) =>
          /\ err' = "none"
          /\ call' = "none"
          /\ last'.ret[2] = compute_metrics(<<>>, <<>>)
          /\ Y' = <<>> /\ YHat' = <<>>]_vars

\* C5: after any sequence of records followed by an end_epoch (either form),
\* both accumulators have length 0 whatever they held, and the metrics
\* collaborator was invoked before the clear, with the full accumulated
\* contents: the mapping end_epoch returns is the one computed from Y and
\* YHat as they were when it was called.
C5_ClearedAfterMetrics ==
    [][EndEpochStep =>
          /\ Len(Y') = 0
          /\ Len(YHat') = 0
          /\ call' = "none" => last'.ret[2] = compute_metrics(Y, YHat)]_vars

\* an end_epoch has returned the metrics of MaxAcc recorded samples and the
\* accumulators are empty
C5_Witness ==
    /\ last.op \in EndOps
    /\ Len(last.ret[2].y_true) = MaxAcc
    /\ Len(last.ret[2].y_pred) = MaxAcc
    /\ Y = <<>> /\ YHat = <<>>

\* C6: Y and YHat have equal length in every reachable state; they change
\* only when a validation_step / test_step completes, which appends exactly
\* one entry to each, the ground truth and the prediction of the same sample,
\* and when end_epoch clears both; training_step and
\* get_pred_seq_and_pred_prob_seq leave both unchanged.
C6_ParallelAccumulators ==
    /\ [](Len(Y) = Len(YHat))
    /\ [][/\ (call \in EvalOps /\ call' = "none") =>
                /\ Y' = Append(Y, TruthWords(GroundTruth[batch.x]))
                /\ YHat' = Append(YHat, yhat)
                /\ yhat = Greedy(dec, batch.x, <<w2i[SOS_TOKEN]>>, max_seq_len)
          /\ (Y' # Y \/ YHat' # YHat) =>
                \/ call \in EvalOps /\ call' = "none"
                \/ EndEpochStep
          /\ (call = PredOp \/ call' = PredOp \/ last'.op = "training_step") =>
                (Y' = Y /\ YHat' = YHat)]_vars

\* two samples recorded, then a training_step: the accumulators still hold
\* the two pairs
C6_Witness ==
    /\ Len(Y) = 2 /\ Len(YHat) = 2
    /\ Y[1] # Y[2]
    /\ last.op = "training_step"


(***************************************************************************)
(* apply_teacher_forcing, one iteration of the inner loop per step.        *)
(* A batch is a sequence of rows of token indices; probabilities and the   *)
(* draws of random.random() are in percent.                                *)
(***************************************************************************)
TFProbs == {0, 50, 100}            \* teacher_forcing_prob
RandomDraws == {0, 49, 50, 99}     \* random.random() lies in [0, 1)
TFBatchSizes == {1, 2}
TFInputTokens == {padding_idx, w2i["a"]}
TFBatches ==
    UNION {[1..b -> [1..n -> TFInputTokens]] : b \in TFBatchSizes, n \in 0..MaxTFLen}

\* y.size(0), y.size(1)
Size0(y) == Len(y)
Size1(y) == IF Len(y) = 0 THEN 0 ELSE Len(y[1])

\* random.randint(0, len(self.w2i) - 1): both ends included
RandInt == 0..(Cardinality(DOMAIN w2i) - 1)

\* random.random() < self.teacher_forcing_prob and y[i, j] != self.padding_idx
ShouldCorrupt_any_token(r, p, token) == r < p
ShouldCorrupt(r, p, token) == r < p /\ token # padding_idx

TFPositions(y) == (1..Size0(y)) \X (1..Size1(y))

\* the call: y_errored = y.clone(), then the loops begin
apply_teacher_forcing ==
    /\ tf_pc = "idle"
    /\ \E y \in TFBatches :
          /\ tf_y' = y
          /\ tf_orig' = y
          /\ y_errored' = y
          /\ tf_pc' = IF Size0(y) = 0 \/ Size1(y) = 0 THEN "done" ELSE "loop"
    /\ tf_i' = 1
    /\ tf_j' = 1
    /\ tf_written' = {}
    /\ UNCHANGED <<tf_prob, mainVars, peVars>>

\* the body of the inner loop at (i, j), and the step to the next position
TFIter ==
    /\ tf_pc = "loop"
    /\ \E r \in RandomDraws, v \in RandInt :
          IF ShouldCorrupt(r, tf_prob, tf_y[tf_i][tf_j])
          THEN /\ y_errored' = [y_errored EXCEPT ![tf_i][tf_j] = v]
               /\ tf_written' = tf_written \cup {<<tf_i, tf_j>>}
          ELSE UNCHANGED <<y_errored, tf_written>>
    /\ IF tf_j < Size1(y_errored)
       THEN /\ tf_j' = tf_j + 1
            /\ UNCHANGED <<tf_i, tf_pc>>
       ELSE /\ tf_j' = 1
            /\ IF tf_i < Size0(y_errored)
               THEN tf_i' = tf_i + 1 /\ tf_pc' = tf_pc
               ELSE tf_i' = 1 /\ tf_pc' = "done"
    /\ UNCHANGED <<tf_prob, tf_y, tf_orig, mainVars, peVars>>

InitTF ==
    /\ tf_prob \in TFProbs
    /\ tf_y = <<>> /\ y_errored = <<>> /\ tf_i = 1 /\ tf_j = 1
    /\ tf_pc = "idle" /\ tf_written = {} /\ tf_orig = <<>>
    /\ max_seq_len = 0
    /\ MainIdle
    /\ PEIdle

NextTF ==
    \/ apply_teacher_forcing
    \/ TFIter

SpecTF == InitTF /\ [][NextTF]_vars

\* C7: for every batch and every outcome of the draws: the output has the
\* shape of the input; a padding position holds the padding index in the
\* output, for any p, and is never assigned; with p = 0 the output equals the
\* input; with p = 1 every non-padding position has been assigned a draw from
\* 0..|vocab|-1 when the call returns; the caller's batch is never changed.
C7_TeacherForcing ==
    tf_pc \in {"loop", "done"} =>
       /\ tf_y = tf_orig
       /\ Size0(y_errored) = Size0(tf_orig)
       /\ \A i \in 1..Size0(tf_orig) : Len(y_errored[i]) = Len(tf_orig[i])
       /\ \A q \in TFPositions(tf_orig) :
             tf_orig[q[1]][q[2]] = w2i["<PAD>"] =>
                /\ y_errored[q[1]][q[2]] = w2i["<PAD>"]
                /\ q \notin tf_written
       /\ tf_prob = 0 => (y_errored = tf_orig /\ tf_written = {})
       /\ (tf_prob = 100 /\ tf_pc = "done") =>
             \A q \in TFPositions(tf_orig) :
                tf_orig[q[1]][q[2]] # w2i["<PAD>"] =>
                   /\ q \in tf_written
                   /\ y_errored[q[1]][q[2]] \in 0..(Cardinality(DOMAIN w2i) - 1)

\* p = 1, a batch with a padding position and two non-padding ones: the call
\* has returned, the padding position is untouched and the two others were
\* assigned the two ends of the vocabulary range (one of them the padding
\* index)
C7_Witness ==
    /\ tf_pc = "done"
    /\ tf_prob = 100
    /\ \E q1, q2, q3 \in TFPositions(tf_orig) :
          /\ tf_orig[q1[1]][q1[2]] = padding_idx
          /\ y_errored[q1[1]][q1[2]] = padding_idx
          /\ tf_orig[q2[1]][q2[2]] # padding_idx
          /\ y_errored[q2[1]][q2[2]] = 0
          /\ q2 \in tf_written
          /\ tf_orig[q3[1]][q3[2]] # padding_idx
          /\ y_errored[q3[1]][q3[2]] = Cardinality(DOMAIN w2i) - 1


(***************************************************************************)
(* PositionalEncoding2D.  The batch and channel axes are left out (the     *)
(* table's batch axis is 1 and its channels are the grid's); a tensor is a *)
(* function on (row, column).  An entry of the table is the pair of        *)
(* positions whose sines and cosines fill its channels.                    *)
(***************************************************************************)
\* __init__: pe[0, h, w, :] is made of sin/cos(pos_w / den), sin/cos(pos_h / den)
PositionalEncoding2D(max_height, max_width) ==
    [max_height |-> max_height,
     max_width |-> max_width,
     table |-> [q \in (1..max_height) \X (1..max_width) |->
                   [pos_w |-> q[2] - 1, pos_h |-> q[1] - 1]]]

\* the feature grid x, of height h and width w
Grid(h, w) == [q \in (1..h) \X (1..w) |-> [feat |-> q]]

\* the end of the slice `: n` on an axis of length max
SliceLen_whole(n, max) == max
SliceLen(n, max) == IF n < max THEN n ELSE max

\* broadcasting of two axis lengths: they agree, or one of them is 1
Broadcastable(a, b) == a = b \/ a = 1 \/ b = 1
BroadcastLen(a, b) == IF a = 1 THEN b ELSE a
BroadcastIdx(k, a) == IF a = 1 THEN 1 ELSE k

\* self.dropout(x): the identity in evaluation mode; in training mode the
\* masked elements become zero and the others are rescaled
Dropout(x, training, mask) ==
    IF training
    THEN [q \in DOMAIN x |-> IF mask[q] THEN [zero |-> TRUE]
                                        ELSE [scaled |-> x[q]]]
    ELSE x

\* forward(x) for a grid of height h and width w
forward_pe(h, w, training) ==
    LET x == Grid(h, w)
        sh == SliceLen(h, pe.max_height)
        sw == SliceLen(w, pe.max_width)
        oh == BroadcastLen(h, sh)
        ow == BroadcastLen(w, sw)
        sum == [q \in (1..oh) \X (1..ow) |->
                   [x |-> x[<<BroadcastIdx(q[1], h), BroadcastIdx(q[2], w)>>],
                    pe |-> pe.table[<<BroadcastIdx(q[1], sh),
                                      BroadcastIdx(q[2], sw)>>]]]
    IN  /\ IF Broadcastable(h, sh) /\ Broadcastable(w, sw)
           THEN \E mask \in [(1..oh) \X (1..ow) -> IF training THEN BOOLEAN
                                                               ELSE {FALSE}] :
                   pe_res' = [status |-> "ok", grid |-> <<h, w>>,
                              slice |-> <<sh, sw>>, shape |-> <<oh, ow>>,
                              out |-> Dropout(sum, training, mask)]
           ELSE pe_res' = [status |-> "RuntimeError", grid |-> <<h, w>>,
                           slice |-> <<sh, sw>>, shape |-> <<>>, out |-> <<>>]
        /\ pe' = pe

\* one application to each grid shape, in either mode
forward ==
    /\ pe_res.status = "none"
    /\ \E h \in 1..(MaxDim + 1), w \in 1..(MaxDim + 1), training \in BOOLEAN :
          forward_pe(h, w, training)
    /\ UNCHANGED <<mainVars, tfVars>>

InitPE ==
    /\ \E max_height \in 1..MaxDim, max_width \in 1..MaxDim :
          pe = PositionalEncoding2D(max_height, max_width)
    /\ pe_res = [status |-> "none"]
    /\ max_seq_len = 0
    /\ MainIdle
    /\ TFIdle

NextPE == forward

SpecPE == InitPE /\ [][NextPE]_vars

Exceeds == pe_res.grid[1] > pe.max_height \/ pe_res.grid[2] > pe.max_width

TableIntact ==
    /\ DOMAIN pe.table = (1..pe.max_height) \X (1..pe.max_width)
    /\ \A q \in DOMAIN pe.table :
          pe.table[q] = [pos_w |-> q[2] - 1, pos_h |-> q[1] - 1]

\* C8 as claimed: applied to a grid whose height or width exceeds the
\* table's maximum, the encoder always fails with an out-of-range indexing
\* error and returns no grid; applied to a grid within the maxima the slice
\* added has the grid's height and width and the table is left unmodified.
C8_Original ==
    pe_res.status # "none" =>
       IF Exceeds
       THEN pe_res.status = "IndexError"
       ELSE /\ pe_res.status = "ok"
            /\ pe_res.slice = pe_res.grid
            /\ TableIntact

\* an axis on which the addition cannot broadcast: the grid is longer than
\* the table and the table is not of length 1
Mismatch(n, max) == n > max /\ max # 1

\* C8 as amended (tables with maxima >= 1, non-empty grids): the slice is
\* clamped to the table, so no out-of-range indexing error is ever raised.  A
\* grid exceeding the table fails, with a shape-mismatch error of the
\* addition and no grid returned, exactly when on some axis the grid is
\* longer than the table and the table's maximum on that axis is not 1;
\* when every exceeded axis has table maximum 1 the single row or column is
\* broadcast and a grid is returned.  For grids within the maxima the slice
\* added has exactly the grid's height and width and a grid of that shape is
\* returned.  The table is never modified.
C8_Amended ==
    pe_res.status # "none" =>
       LET h == pe_res.grid[1]
           w == pe_res.grid[2]
       IN  /\ pe_res.status # "IndexError"
           /\ TableIntact
           /\ pe_res.slice[1] = (IF h <= pe.max_height THEN h ELSE pe.max_height)
           /\ pe_res.slice[2] = (IF w <= pe.max_width THEN w ELSE pe.max_width)
           /\ IF Mismatch(h, pe.max_height) \/ Mismatch(w, pe.max_width)
              THEN pe_res.status = "RuntimeError" /\ pe_res.out = <<>>
              ELSE /\ pe_res.status = "ok"
                   /\ DOMAIN pe_res.out = (1..pe_res.shape[1]) \X (1..pe_res.shape[2])
           /\ ~Exceeds =>
                 /\ pe_res.status = "ok"
                 /\ pe_res.slice = pe_res.grid
                 /\ pe_res.shape = pe_res.grid

\* a grid of height 2 on a table of maximum height 1: the single table row is
\* broadcast and a grid of height 2 is returned
C8_Witness ==
    /\ pe_res.status = "ok"
    /\ pe.max_height = 1
    /\ pe.max_width = 2
    /\ pe_res.grid = <<2, 2>>
    /\ pe_res.shape = <<2, 2>>
    /\ pe_res.slice = <<1, 2>>

====
